---- MODULE Spec2Model ----
(***************************************************************************)
(* Supervision and recovery engine of stream_manager.py: the registry      *)
(* (StreamManager.active_streams), the single registry lock (stream_lock), *)
(* the stream instances (StreamInstance) with their child processes, the   *)
(* monitor thread and the API threads of the Flask application.            *)
(*                                                                         *)
(* Every handler runs under stream_lock; a handler that blocks (child      *)
(* launch, terminate/wait, recovery) is split at the points where it holds *)
(* the lock and other threads can only wait or child processes can die.    *)
(***************************************************************************)
EXTENDS Integers, Sequences, FiniteSets, TLC

\* ------------------------------------------------------------------ universe

StreamIds == {"s1", "s2"}
ApiThreads == {"api1", "api2"}
MonitorThread == "monitor"
Threads == ApiThreads \cup {MonitorThread}

\* quality_levels of _reduce_quality, best first
quality_levels == <<"ultra", "high", "medium", "low">>
Tiers == {quality_levels[k] : k \in 1..Len(quality_levels)}

\* tiers a stream is created with, and the tier an update writes
CreateTiers == {"medium"}
UpdateData == {"low", "nofields"}

\* the most failures a pipeline accumulates before the model stops recovering it
MaxFailureCount == 1
\* the same cap in the two-pipeline specification
MaxFailureCountTwo == 0
\* the same cap where the preemptive recovery (health below 50) is followed
MaxFailureCountDeep == 6
\* stream_recovery rows left without an outcome (database faults only)
MaxOpenRows == 2
\* children of one pipeline left running with no handle in any process set
MaxOrphans == 1
\* the same cap in the specifications that follow something else
MaxOrphansElsewhere == 0

\* cpu_usage / memory_usage when no child is running, and the samples psutil can
\* report for a running process set
IdleSample == [cpu |-> 0, mem |-> 0]
BusySamples == { IdleSample, [cpu |-> 95, mem |-> 2500], [cpu |-> 40, mem |-> 2500] }

\* the readings and health scores (in hundredths) on both sides of every threshold
\* of detect_failure_type, and the process sets of an X11 pipeline
DetectSamples == [cpu : {90, 91}, mem : {2000, 2001}, drops : {50, 51}]
DetectHealths == {2999, 3000}
DetectProcesses ==
    { << [name |-> "display", alive |-> a], [name |-> "renderer", alive |-> b],
         [name |-> "ffmpeg", alive |-> c] >> : a \in BOOLEAN, b \in BOOLEAN, c \in BOOLEAN }

\* the readings and failure counts given to the health scorer: idle, at the knee of
\* each penalty, and far enough out to drive every sub-score past its clamp
HealthSamples == [cpu : {0, 50, 95, 400}, mem : {0, 800, 2500, 20000},
                  drops : {0, 25, 1000}]
HealthFailureCounts == {0, 5, 10, 11}

\* platform_configs (platform name -> rtmp_url) and a platform name it does not hold
platform_configs ==
    [youtube |-> "rtmp://a.rtmp.youtube.com/live2/", twitch |-> "rtmp://live.twitch.tv/live/"]
Platforms == {"youtube", "twitch", "custom", "nowhere"}

\* the additional targets a pipeline config can list, and the lists of them
FanoutTargets ==
    { [platform |-> "twitch", stream_key |-> "keyB", rtmp_url |-> "", enabled |-> TRUE],
      [platform |-> "twitch", stream_key |-> "keyB", rtmp_url |-> "", enabled |-> FALSE],
      [platform |-> "custom", stream_key |-> "keyC", rtmp_url |-> "rtmp://own.example/live",
       enabled |-> TRUE],
      [platform |-> "nowhere", stream_key |-> "keyD", rtmp_url |-> "", enabled |-> TRUE] }
MaxTargets == 2
FanoutLists ==
    UNION { [1..n -> FanoutTargets] : n \in 0..MaxTargets }

\* the tags handed to the planner: those detect_failure_type can build, the tag of
\* api_manual_recovery, and a process-failure tag of a child the strategy map does not name
PlannerTags == {"process_failure_ffmpeg", "process_failure_renderer",
                "process_failure_display", "process_failure_chrome", "high_cpu",
                "memory_exhaustion", "connection_issues", "critical_health",
                "unknown_failure", "manual_recovery"}

\* the keys of StreamInstance.processes
ChildNames == {"display", "renderer", "ffmpeg", "chrome"}

VARIABLES
    db_streams,       \* streams table: id -> [present, quality]
    stream_recovery,  \* stream_recovery table: id -> rows created and never updated
    active_streams,   \* StreamManager.active_streams: the ids, in insertion order
    inst,             \* the StreamInstance of each id (meaningful while registered)
    stream_lock,      \* "free" or the thread holding it
    pc,               \* each thread's position
    req,              \* each thread's current call
    mon,              \* the monitor pass: ids left to visit, metrics_due
    rec               \* the recovery being executed (attempt_recovery's frame)

vars == <<db_streams, stream_recovery, active_streams, inst, stream_lock, pc, req, mon, rec>>

\* ------------------------------------------------------------------ values

\* StreamInstance.__init__; platform, stream_key and rtmp_url are the primary target
\* of self.config; multi_stream_targets is self.config.get('multi_stream_targets', []):
\* a list of targets, or (json) the JSON text of one, which is what get_stream returns
\* for the column of the streams table; orphans counts the children launched for the pipeline
\* whose Popen handle was dropped while they were running (no field of the class:
\* they are processes of the host that nothing can terminate any more)
NewInstance(q) ==
    [ status |-> "stopped", processes |-> <<>>, quality |-> q,
      failure_count |-> 0, health_score |-> 10000,
      recovery_in_progress |-> FALSE, active_recovery_id |-> FALSE, orphans |-> 0,
      platform |-> "youtube", stream_key |-> "keyA", rtmp_url |-> "",
      multi_stream_targets |-> [json |-> FALSE, items |-> <<>>] ]

NoInstance == NewInstance("medium")

\* metrics.get(key, 0) on the {} collect_metrics returns for a pipeline that is not live
NoMetrics == [cpu |-> 0, mem |-> 0, drops |-> 0]

\* was: the status and process set the handler found (kept for stop_stream)
NoReq == [op |-> "none", id |-> "s1", data |-> "none", caller |-> "none",
          during |-> FALSE, ok |-> FALSE, msg |-> "none",
          was |-> [status |-> "none", processes |-> <<>>]]

\* failed_at_low is history: the pipelines on which _reduce_quality has returned
\* False because the tier was already the last one
NoRec == [id |-> "s1", path |-> "none", tags |-> <<>>, dead |-> {}, was_live |-> FALSE,
          strategy |-> "none", rejected |-> FALSE, executed |-> FALSE,
          launches_ok |-> FALSE, strategy_ok |-> FALSE, returned |-> FALSE,
          fc_before |-> 0, alerted |-> FALSE, fault |-> "none", metrics |-> NoMetrics,
          tier_before |-> "medium", health |-> 10000, logged |-> TRUE,
          raised |-> FALSE, targets |-> <<>>, output |-> [mode |-> "none", urls |-> <<>>],
          failed_at_low |-> {}]

Max(a, b) == IF a >= b THEN a ELSE b
Min(a, b) == IF a <= b THEN a ELSE b

Registered(id) == \E k \in 1..Len(active_streams) : active_streams[k] = id

\* del self.active_streams[stream_id]
RemoveId(s, id) == SelectSeq(s, LAMBDA x : x # id)

\* ------------------------------------------------------------------ process set

ProcNames(procs) == {procs[k].name : k \in 1..Len(procs)}
AliveNames(procs) == {procs[k].name : k \in {j \in 1..Len(procs) : procs[j].alive}}
DeadNames(procs) == ProcNames(procs) \ AliveNames(procs)

\* the running child whose handle an assignment to self.processes[name] drops
Dropped(procs, name) == IF name \in AliveNames(procs) THEN 1 ELSE 0

\* self.processes[name] = subprocess.Popen(...): a dict keeps a key's place
SetProcess(procs, name) ==
    IF name \in ProcNames(procs)
    THEN [k \in 1..Len(procs) |->
            IF procs[k].name = name THEN [name |-> name, alive |-> TRUE] ELSE procs[k]]
    ELSE Append(procs, [name |-> name, alive |-> TRUE])

\* process.terminate(); process.wait() returned
MarkExited(procs, name) ==
    [k \in 1..Len(procs) |->
        IF procs[k].name = name THEN [name |-> name, alive |-> FALSE] ELSE procs[k]]

\* cleanup: terminate, wait, kill on timeout, then self.processes.clear()
cleanup(i) == [i EXCEPT !.processes = <<>>]

\* ------------------------------------------------------------------ fan-out

\* _build_rtmp_url(platform, stream_key, custom_url): raises for a platform that
\* platform_configs does not hold
build_rtmp_url(platform, stream_key, custom_url) ==
    IF platform = "custom" /\ custom_url # ""
    THEN [raised |-> FALSE, url |-> custom_url \o "/" \o stream_key]
    ELSE IF platform \in DOMAIN platform_configs
    THEN [raised |-> FALSE, url |-> platform_configs[platform] \o stream_key]
    ELSE [raised |-> TRUE, url |-> ""]

\* the loop of _get_stream_targets over a list of targets, from the k-th on
RECURSIVE resolve_from(_, _, _)
resolve_from(items, k, targets) ==
    IF k > Len(items)
    THEN [raised |-> FALSE, targets |-> targets]
    ELSE IF ~items[k].enabled
    THEN resolve_from(items, k + 1, targets)
    ELSE LET r == build_rtmp_url(items[k].platform, items[k].stream_key, items[k].rtmp_url)
         IN  IF r.raised
             THEN [raised |-> TRUE, targets |-> <<>>]
             ELSE resolve_from(items, k + 1, Append(targets, r.url))

\* _get_stream_targets: the primary target, then the enabled additional targets;
\* iterating over JSON text yields its characters (at least "[" and "]"), which
\* have no get: AttributeError
get_stream_targets(i) ==
    LET primary == build_rtmp_url(i.platform, i.stream_key, i.rtmp_url)
    IN  IF primary.raised \/ i.multi_stream_targets.json
        THEN [raised |-> TRUE, targets |-> <<>>]
        ELSE resolve_from(i.multi_stream_targets.items, 1, <<primary.url>>)

\* the output arguments _start_ffmpeg_stream appends to ffmpeg_cmd
ffmpeg_output(targets) ==
    IF Len(targets) = 1
    THEN [mode |-> "flv", urls |-> <<targets[1]>>]
    ELSE [mode |-> "tee", urls |-> targets]

\* ------------------------------------------------------------------ start sequence

\* what the environment decides during a start or a recovery strategy:
\*   headless: _detect_headless_system's answer;  x11: how many of the three X11
\*   launches (display, renderer, ffmpeg) succeed before one raises;  chrome: whether
\*   the headless renderer launch succeeds;  term: whether a running child exits within
\*   wait(timeout);  launch: whether a single relaunch succeeds;  early: the X11
\*   child, if any, that was launched and has exited again before the start sequence
\*   returns (during one of its sleeps)
EarlyExits == {"none", "display", "renderer", "ffmpeg"}
Choices == [headless : BOOLEAN, x11 : 0..3, chrome : BOOLEAN, term : BOOLEAN,
            launch : BOOLEAN, early : EarlyExits]

\* a start reads only headless, x11 and chrome
StartChoices == {c \in Choices : c.term /\ c.launch}

AllLaunchesSucceed(c) == ~c.headless /\ c.x11 = 3

\* _start_x11_streaming: display, renderer, ffmpeg in this order; a failed launch raises
start_x11_streaming(procs, c) ==
    LET p1 == IF c.x11 >= 1 THEN SetProcess(procs, "display") ELSE procs
        p2 == IF c.x11 >= 2 THEN SetProcess(p1, "renderer") ELSE p1
        p3 == IF c.x11 >= 3 THEN SetProcess(p2, "ffmpeg") ELSE p2
        p4 == IF c.x11 = 3 /\ c.early # "none" THEN MarkExited(p3, c.early) ELSE p3
    IN  [procs |-> p4, raised |-> c.x11 < 3, dropped |-> 0]

\* _start_headless_streaming: launches the renderer, then _start_headless_ffmpeg_stream
\* calls self._build_rtmp_url() without the arguments the (later) definition of
\* _build_rtmp_url requires, which raises TypeError before any encoder is launched
start_headless_streaming(procs, c) ==
    [procs |-> IF c.chrome THEN SetProcess(procs, "chrome") ELSE procs, raised |-> TRUE,
     dropped |-> IF c.chrome THEN Dropped(procs, "chrome") ELSE 0]

\* _start_smart_streaming: any exception falls back to the headless path
start_smart_streaming(procs, c) ==
    LET first == IF c.headless THEN start_headless_streaming(procs, c)
                 ELSE start_x11_streaming(procs, c)
        again == start_headless_streaming(first.procs, c)
    IN  IF first.raised
        THEN [again EXCEPT !.dropped = first.dropped + again.dropped]
        ELSE first

\* _start_ffmpeg_stream raises, before it launches the encoder, when
\* _get_stream_targets does
encoder_choice(i, c) ==
    IF get_stream_targets(i).raised
    THEN [c EXCEPT !.x11 = Min(c.x11, 2), !.launch = FALSE]
    ELSE c

\* a start without the status check: it runs the start sequence on a live instance too
start_streaming_unchecked(i, c) ==
    LET s == start_smart_streaming(i.processes, encoder_choice(i, c))
    IN  IF s.raised
        THEN [ok |-> FALSE, msg |-> "start_error",
              inst |-> cleanup([i EXCEPT !.processes = s.procs,
                                         !.orphans = @ + s.dropped])]
        ELSE [ok |-> TRUE, msg |-> "started",
              inst |-> [i EXCEPT !.processes = s.procs, !.status = "live",
                                 !.orphans = @ + s.dropped]]

\* start_streaming: [ok, msg, inst]
start_streaming(i, c) ==
    IF i.status = "live"
    THEN [ok |-> FALSE, msg |-> "already_running", inst |-> i]
    ELSE LET s == start_smart_streaming(i.processes, encoder_choice(i, c))
         IN  IF s.raised
             THEN [ok |-> FALSE, msg |-> "start_error",
                   inst |-> cleanup([i EXCEPT !.processes = s.procs,
                                              !.orphans = @ + s.dropped])]
             ELSE [ok |-> TRUE, msg |-> "started",
                   inst |-> [i EXCEPT !.processes = s.procs, !.status = "live",
                                      !.orphans = @ + s.dropped]]

\* a stop that marks the instance stopped and forgets to release its processes
stop_streaming_no_cleanup(i) == [i EXCEPT !.status = "stopped"]

\* stop_streaming
stop_streaming(i) == [cleanup(i) EXCEPT !.status = "stopped"]

\* ------------------------------------------------------------------ metrics, health

\* collect_metrics: {} unless live; cpu and memory are summed over the running children
MetricSamples(S, i) ==
    IF i.status # "live" \/ AliveNames(i.processes) = {}
    THEN { IdleSample }
    ELSE S.samples

\* _get_frame_drops
frame_drops == 0

\* a weighted average whose performance score is not capped at 100
health_score_uncapped(metrics, failure_count) ==
    LET cpu_score      == Max(0, 100 - (metrics.cpu - 50))
        memory_penalty == Max(0, metrics.mem - 500)
        performance    == Max(0, 10 * cpu_score - memory_penalty)
        connection     == Max(0, 100 - metrics.drops * 2)
        stability      == Max(0, 100 - failure_count * 10)
    IN  4 * performance + 40 * connection + 20 * stability

\* the weighted average of calculate_health_score on the metrics collect_metrics
\* returned, in hundredths of a point (performance in tenths)
health_score_of(metrics, failure_count) ==
    LET cpu_score      == Max(0, 100 - (metrics.cpu - 50))
        memory_penalty == Max(0, metrics.mem - 500)      \* tenths: (mem - 500) / 10
        performance    == Max(0, Min(1000, 10 * cpu_score - memory_penalty))
        connection     == Max(0, 100 - metrics.drops * 2)
        stability      == Max(0, 100 - failure_count * 10)
    IN  4 * performance + 40 * connection + 20 * stability

\* calculate_health_score in the running program, where _get_frame_drops is what
\* collect_metrics reports as frame_drops; an instance that is not live scores 100
\* without being measured
calculate_health_score(i, m) ==
    IF i.status # "live"
    THEN 10000
    ELSE health_score_of([cpu |-> m.cpu, mem |-> m.mem, drops |-> frame_drops],
                         i.failure_count)

\* collect_metrics as detect_failure_type reads it: {} unless live, else the readings
collect_metrics(i, reading) == IF i.status # "live" THEN NoMetrics ELSE reading

\* a classifier whose metric thresholds are inclusive
detect_tags_inclusive(processes, metrics, health_score) ==
    LET dead == SelectSeq(processes, LAMBDA p : ~p.alive)
        proc_tags == [k \in 1..Len(dead) |-> "process_failure_" \o dead[k].name]
        tags == proc_tags
                \o (IF metrics.cpu >= 90 THEN <<"high_cpu">> ELSE <<>>)
                \o (IF metrics.mem >= 2000 THEN <<"memory_exhaustion">> ELSE <<>>)
                \o (IF metrics.drops >= 50 THEN <<"connection_issues">> ELSE <<>>)
                \o (IF health_score < 3000 THEN <<"critical_health">> ELSE <<>>)
    IN  IF tags = <<>> THEN <<"unknown_failure">> ELSE tags

\* a classifier that appends the resource and health tags before the process tags
detect_tags_resource_first(processes, metrics, health_score) ==
    LET dead == SelectSeq(processes, LAMBDA p : ~p.alive)
        proc_tags == [k \in 1..Len(dead) |-> "process_failure_" \o dead[k].name]
        tags == (IF metrics.cpu > 90 THEN <<"high_cpu">> ELSE <<>>)
                \o (IF metrics.mem > 2000 THEN <<"memory_exhaustion">> ELSE <<>>)
                \o (IF metrics.drops > 50 THEN <<"connection_issues">> ELSE <<>>)
                \o (IF health_score < 3000 THEN <<"critical_health">> ELSE <<>>)
                \o proc_tags
    IN  IF tags = <<>> THEN <<"unknown_failure">> ELSE tags

\* the body of detect_failure_type on the metrics collect_metrics returned: the tags
\* in the order the code appends them
detect_tags(processes, metrics, health_score) ==
    LET dead == SelectSeq(processes, LAMBDA p : ~p.alive)
        proc_tags == [k \in 1..Len(dead) |-> "process_failure_" \o dead[k].name]
        tags == proc_tags
                \o (IF metrics.cpu > 90 THEN <<"high_cpu">> ELSE <<>>)
                \o (IF metrics.mem > 2000 THEN <<"memory_exhaustion">> ELSE <<>>)
                \o (IF metrics.drops > 50 THEN <<"connection_issues">> ELSE <<>>)
                \o (IF health_score < 3000 THEN <<"critical_health">> ELSE <<>>)
    IN  IF tags = <<>> THEN <<"unknown_failure">> ELSE tags

\* detect_failure_type in the running program, where _get_frame_drops is what
\* collect_metrics reports as frame_drops
detect_failure_type(i, m) ==
    detect_tags(i.processes, [cpu |-> m.cpu, mem |-> m.mem, drops |-> frame_drops],
                i.health_score)

\* ------------------------------------------------------------------ recovery strategies

\* a strategy map none of whose keys matches the tags detect_failure_type builds,
\* so that every failure falls to the default
select_recovery_strategy_default(failure_type) == "full_restart"

\* a strategy map read without its default: an unmapped tag selects no strategy
select_recovery_strategy_no_default(failure_type) ==
    CASE failure_type = "process_failure_ffmpeg"   -> "restart_ffmpeg"
      [] failure_type = "process_failure_renderer" -> "restart_renderer"
      [] failure_type = "process_failure_display"  -> "restart_display"
      [] failure_type = "high_cpu"                 -> "reduce_quality"
      [] failure_type = "memory_exhaustion"        -> "restart_all"
      [] failure_type = "connection_issues"        -> "reconnect_stream"
      [] failure_type = "critical_health"          -> "full_restart"
      [] failure_type = "unknown_failure"          -> "full_restart"
      [] OTHER                                     -> "none"

\* _select_recovery_strategy
select_recovery_strategy(failure_type) ==
    CASE failure_type = "process_failure_ffmpeg"   -> "restart_ffmpeg"
      [] failure_type = "process_failure_renderer" -> "restart_renderer"
      [] failure_type = "process_failure_display"  -> "restart_display"
      [] failure_type = "high_cpu"                 -> "reduce_quality"
      [] failure_type = "memory_exhaustion"        -> "restart_all"
      [] failure_type = "connection_issues"        -> "reconnect_stream"
      [] failure_type = "critical_health"          -> "full_restart"
      [] failure_type = "unknown_failure"          -> "full_restart"
      [] OTHER                                     -> "full_restart"

\* a restart of one child that tears down and relaunches every child of the set
restart_process_all(i, name, c) ==
    IF name \in AliveNames(i.processes) /\ ~c.term
    THEN [ok |-> FALSE, inst |-> i, dbq |-> "same"]
    ELSE LET p1 == [k \in 1..Len(i.processes) |->
                      [name |-> i.processes[k].name, alive |-> FALSE]]
         IN  IF c.launch
             THEN [ok |-> TRUE,
                   inst |-> [i EXCEPT !.processes =
                               [k \in 1..Len(p1) |-> [name |-> p1[k].name, alive |-> TRUE]]],
                   dbq |-> "same"]
             ELSE [ok |-> FALSE, inst |-> [i EXCEPT !.processes = p1], dbq |-> "same"]

\* the terminate / wait(timeout) / relaunch of one named child, shared by
\* _restart_ffmpeg and _restart_renderer: a child that does not exit within the
\* timeout raises TimeoutExpired, which the strategy turns into False
restart_process(i, name, c) ==
    IF name \in AliveNames(i.processes) /\ ~c.term
    THEN [ok |-> FALSE, inst |-> i, dbq |-> "same"]
    ELSE LET p1 == MarkExited(i.processes, name)
         IN  IF c.launch
             THEN [ok |-> TRUE, inst |-> [i EXCEPT !.processes = SetProcess(p1, name)],
                   dbq |-> "same"]
             ELSE [ok |-> FALSE, inst |-> [i EXCEPT !.processes = p1], dbq |-> "same"]

restart_ffmpeg(i, c) == restart_process(i, "ffmpeg", encoder_choice(i, c))

\* a renderer restart that reports success without relaunching anything
restart_renderer_reports_only(i, c) == [ok |-> TRUE, inst |-> i, dbq |-> "same"]

restart_renderer(i, c) == restart_process(i, "renderer", c)

\* _full_restart: cleanup, then start_streaming
full_restart(i, c) ==
    LET r == start_streaming(cleanup(i), c)
    IN  [ok |-> r.ok, inst |-> r.inst, dbq |-> "same"]

\* _restart_display
restart_display(i, c) == full_restart(i, c)

TierIndex(q) == CHOOSE k \in 1..Len(quality_levels) : quality_levels[k] = q

\* a downgrade that goes to the last tier of the ladder at once
reduce_quality_to_lowest(i, c) ==
    IF i.quality \in Tiers /\ TierIndex(i.quality) < Len(quality_levels)
    THEN LET new_quality == quality_levels[Len(quality_levels)]
             r == full_restart([i EXCEPT !.quality = new_quality], c)
         IN  [ok |-> r.ok, inst |-> r.inst, dbq |-> new_quality]
    ELSE [ok |-> FALSE, inst |-> i, dbq |-> "same"]

\* a downgrade that restarts the pipeline also when there is no tier left below
reduce_quality_restarts_at_low(i, c) ==
    IF i.quality \in Tiers /\ TierIndex(i.quality) < Len(quality_levels)
    THEN LET new_quality == quality_levels[TierIndex(i.quality) + 1]
             r == full_restart([i EXCEPT !.quality = new_quality], c)
         IN  [ok |-> r.ok, inst |-> r.inst, dbq |-> new_quality]
    ELSE LET r == full_restart(i, c)
         IN  [ok |-> FALSE, inst |-> r.inst, dbq |-> "same"]

\* _reduce_quality: dbq is the tier written to the streams table
reduce_quality(i, c) ==
    IF i.quality \in Tiers /\ TierIndex(i.quality) < Len(quality_levels)
    THEN LET new_quality == quality_levels[TierIndex(i.quality) + 1]
             r == full_restart([i EXCEPT !.quality = new_quality], c)
         IN  [ok |-> r.ok, inst |-> r.inst, dbq |-> new_quality]
    ELSE [ok |-> FALSE, inst |-> i, dbq |-> "same"]

\* _reconnect_stream: terminate the encoder with the longer wait, then _restart_ffmpeg
reconnect_stream(i, c) ==
    IF "ffmpeg" \in AliveNames(i.processes) /\ ~c.term
    THEN [ok |-> FALSE, inst |-> i, dbq |-> "same"]
    ELSE restart_ffmpeg([i EXCEPT !.processes = MarkExited(i.processes, "ffmpeg")], c)

\* _execute_recovery_strategy
execute_recovery_strategy(strategy, i, c) ==
    CASE strategy = "restart_ffmpeg"   -> restart_ffmpeg(i, c)
      [] strategy = "restart_renderer" -> restart_renderer(i, c)
      [] strategy = "restart_display"  -> restart_display(i, c)
      [] strategy = "reduce_quality"   -> reduce_quality(i, c)
      [] strategy = "reconnect_stream" -> reconnect_stream(i, c)
      [] OTHER                         -> full_restart(i, c)

\* ------------------------------------------------------------------ initial state

\* StreamManager.__init__, an empty streams table, every thread idle
Init ==
    /\ db_streams = [id \in StreamIds |-> [present |-> FALSE, quality |-> "medium"]]
    /\ stream_recovery = [id \in StreamIds |-> 0]
    /\ active_streams = <<>>
    /\ inst = [id \in StreamIds |-> NoInstance]
    /\ stream_lock = "free"
    /\ pc = [t \in Threads |-> "idle"]
    /\ req = [t \in Threads |-> NoReq]
    /\ mon = [todo |-> <<>>, metrics_due |-> FALSE]
    /\ rec = NoRec

\* what a specification explores: the ids that get created, the failure cap, and
\* whether the recovery-table calls of attempt_recovery may raise
\*   ids: the pipelines created;  apis: the API threads;  maxfc: the failure cap;
\*   faults: where a stream_recovery call of attempt_recovery may raise;
\*   samples: what psutil reports for a running process set;  mortal: the children
\*   that exit on their own;  orphans: the cap on children left without a handle;
\*   create, update: the tiers a stream is created with and the data an update writes;
\*   configs: the targets of the pipelines (primary platform, additional targets)
DefaultConfig == [platform |-> "youtube", items |-> <<>>]
ScopeOne == [configs |-> {DefaultConfig}, create |-> CreateTiers, update |-> UpdateData, ids |-> {"s1"}, apis |-> {"api1"}, maxfc |-> MaxFailureCount,
             faults |-> {"none"}, samples |-> BusySamples, mortal |-> ChildNames,
             orphans |-> MaxOrphans]
ScopeTwo == [configs |-> {DefaultConfig}, create |-> CreateTiers, update |-> UpdateData, ids |-> StreamIds, apis |-> {"api1"}, maxfc |-> MaxFailureCountTwo,
             faults |-> {"none"}, samples |-> {IdleSample}, mortal |-> {"ffmpeg"},
              orphans |-> MaxOrphansElsewhere]
ScopeDeep == [configs |-> {DefaultConfig}, create |-> CreateTiers, update |-> UpdateData, ids |-> {"s1"}, apis |-> {"api1"}, maxfc |-> MaxFailureCountDeep,
              faults |-> {"none"}, samples |-> {IdleSample, [cpu |-> 95, mem |-> 2500]},
              mortal |-> {"ffmpeg"},
              orphans |-> MaxOrphansElsewhere]
ScopeFault == [configs |-> {DefaultConfig}, create |-> CreateTiers, update |-> UpdateData, ids |-> {"s1"}, apis |-> {"api1"}, maxfc |-> MaxFailureCount,
               faults |-> {"none", "create", "update", "post"},
               samples |-> {IdleSample}, mortal |-> {"ffmpeg"},
              orphans |-> MaxOrphansElsewhere]

ScopePair == [configs |-> {DefaultConfig}, create |-> CreateTiers, update |-> UpdateData, ids |-> {"s1"}, apis |-> ApiThreads, maxfc |-> MaxFailureCountTwo,
              faults |-> {"none"}, samples |-> {IdleSample}, mortal |-> {"ffmpeg"},
              orphans |-> MaxOrphansElsewhere]

\* ------------------------------------------------------------------ API threads

\* StreamManager.create_stream: a row in the streams table (no lock taken)
CreateStream(id, q) ==
    /\ ~db_streams[id].present
    /\ db_streams' = [db_streams EXCEPT ![id] = [present |-> TRUE, quality |-> q]]
    /\ UNCHANGED <<stream_recovery, active_streams, inst, stream_lock, pc, req, mon, rec>>

\* handlers that enter their body without taking stream_lock
CallUnlocked(t, op, id, data) ==
    /\ pc[t] = "idle"
    /\ (op = "update") = (data # "none")
    /\ req' = [req EXCEPT ![t] = [NoReq EXCEPT !.op = op, !.id = id, !.data = data]]
    /\ pc' = [pc EXCEPT ![t] = "locked"]
    /\ UNCHANGED <<db_streams, stream_recovery, active_streams, inst, stream_lock, mon, rec>>

\* an API thread enters one of start_stream, stop_stream, update_stream, delete_stream,
\* api_manual_recovery and reaches its `with stream_lock`
Call(t, op, id, data) ==
    /\ pc[t] = "idle"
    /\ (op = "update") = (data # "none")
    /\ req' = [req EXCEPT ![t] =
                 [NoReq EXCEPT !.op = op, !.id = id, !.data = data,
                    !.during = (op = "recover" /\ Registered(id)
                                /\ inst[id].recovery_in_progress)]]
    /\ IF stream_lock = "free"
       THEN stream_lock' = t /\ pc' = [pc EXCEPT ![t] = "locked"]
       ELSE stream_lock' = stream_lock /\ pc' = [pc EXCEPT ![t] = "blocked"]
    /\ UNCHANGED <<db_streams, stream_recovery, active_streams, inst, mon, rec>>

\* threading.Lock.acquire by a waiting thread: granted only when the lock is free,
\* also when the waiting thread is the one holding it (the lock is not reentrant)
Acquire(t, due) ==
    /\ pc[t] = "blocked"
    /\ stream_lock = "free"
    /\ stream_lock' = t
    /\ IF t = MonitorThread
       THEN /\ pc' = [pc EXCEPT ![t] = "mon_loop"]
            /\ mon' = [todo |-> active_streams, metrics_due |-> due]
       ELSE /\ pc' = [pc EXCEPT ![t] = "locked"]
            /\ due = FALSE
            /\ mon' = mon
    /\ UNCHANGED <<db_streams, stream_recovery, active_streams, inst, req, rec>>

\* the handler's return value is computed; the `with` block is about to exit
Result(t, ok, msg) == [req EXCEPT ![t].ok = ok, ![t].msg = msg]

\* leaving `with stream_lock` and returning to the caller
Return(t) ==
    /\ pc[t] = "return"
    /\ pc' = [pc EXCEPT ![t] = "idle"]
    /\ req' = [req EXCEPT ![t] = NoReq]
    /\ stream_lock' = "free"
    /\ UNCHANGED <<db_streams, stream_recovery, active_streams, inst, mon, rec>>

\* an instance removed from the registry is garbage: only what stop left of it is kept
Discard(i) == [NoInstance EXCEPT !.status = i.status, !.processes = i.processes,
                                 !.orphans = i.orphans]

\* StreamManager.start_stream (body of the with block); called from update_stream it
\* is followed by update_stream's own return
StartStream(S, t, c) ==
    /\ pc[t] = "locked" /\ req[t].op = "start"
    /\ \E cfg \in S.configs :
       LET id == req[t].id
           known == Registered(id)
           found == db_streams[id].present
           i == IF known THEN inst[id]
                ELSE [NewInstance(db_streams[id].quality) EXCEPT
                         !.orphans = inst[id].orphans,
                         !.platform = cfg.platform,
                         !.multi_stream_targets = [json |-> FALSE, items |-> cfg.items]]
       IN  \E r \in {start_streaming(i, c)} :
           /\ c.early \in {"none"} \cup S.mortal
           /\ r.inst.orphans <= S.orphans
           /\ IF known \/ found
              THEN /\ inst' = [inst EXCEPT ![id] = r.inst]
                   /\ active_streams' = IF known THEN active_streams
                                        ELSE Append(active_streams, id)
              ELSE UNCHANGED <<inst, active_streams>>
           /\ req' = IF req[t].caller = "update" THEN Result(t, TRUE, "updated")
                     ELSE IF known \/ found THEN Result(t, r.ok, r.msg)
                     ELSE Result(t, FALSE, "not_found")
    /\ pc' = [pc EXCEPT ![t] = "return"]
    /\ UNCHANGED <<db_streams, stream_recovery, stream_lock, mon, rec>>

\* db.update_stream: FALSE when the data holds no allowed field
db_update_stream(db, id, data) ==
    IF data \in Tiers /\ db[id].present
    THEN [ok |-> TRUE, db |-> [db EXCEPT ![id].quality = data]]
    ELSE [ok |-> FALSE, db |-> db]

\* db.delete_stream
db_delete_stream(db, id) == [db EXCEPT ![id] = [present |-> FALSE, quality |-> "medium"]]

\* StreamManager.stop_stream (body of the with block); called from update_stream or
\* delete_stream it is followed by the rest of that caller
StopStream(t) ==
    /\ pc[t] = "locked" /\ req[t].op = "stop"
    /\ LET id == req[t].id
           known == Registered(id)
           u == db_update_stream(db_streams, id, req[t].data)
       IN  /\ IF known
              THEN /\ inst' = [inst EXCEPT ![id] = Discard(stop_streaming(inst[id]))]
                   /\ active_streams' = RemoveId(active_streams, id)
              ELSE UNCHANGED <<inst, active_streams>>
           /\ CASE req[t].caller = "none" ->
                     /\ req' = IF known
                               THEN [Result(t, TRUE, "stopped") EXCEPT ![t].was =
                                       [status |-> inst[id].status,
                                        processes |-> inst[id].processes]]
                               ELSE Result(t, FALSE, "not_active")
                     /\ pc' = [pc EXCEPT ![t] = "return"]
                     /\ UNCHANGED <<db_streams, stream_lock>>
                [] req[t].caller = "delete" ->
                     /\ db_streams' = db_delete_stream(db_streams, id)
                     /\ req' = Result(t, TRUE, "deleted")
                     /\ pc' = [pc EXCEPT ![t] = "return"]
                     /\ UNCHANGED stream_lock
                [] req[t].caller = "update" ->
                     /\ db_streams' = u.db
                     /\ IF u.ok
                        THEN /\ req' = [req EXCEPT ![t].op = "start"]
                             /\ pc' = [pc EXCEPT ![t] = "blocked"]
                             /\ UNCHANGED stream_lock
                        ELSE /\ req' = Result(t, FALSE, "update_failed")
                             /\ pc' = [pc EXCEPT ![t] = "return"]
                             /\ UNCHANGED stream_lock
    /\ UNCHANGED <<stream_recovery, mon, rec>>

\* StreamManager.update_stream: with the stream registered it calls self.stop_stream,
\* which waits for stream_lock while this thread holds it
UpdateStream(t) ==
    /\ pc[t] = "locked" /\ req[t].op = "update"
    /\ LET id == req[t].id
           u == db_update_stream(db_streams, id, req[t].data)
       IN  IF ~db_streams[id].present
           THEN /\ req' = Result(t, FALSE, "not_found")
                /\ pc' = [pc EXCEPT ![t] = "return"]
                /\ UNCHANGED db_streams
           ELSE IF Registered(id)
           THEN /\ req' = [req EXCEPT ![t].op = "stop", ![t].caller = "update"]
                /\ pc' = [pc EXCEPT ![t] = "blocked"]
                /\ UNCHANGED db_streams
           ELSE /\ db_streams' = u.db
                /\ req' = IF u.ok THEN Result(t, TRUE, "updated")
                          ELSE Result(t, FALSE, "update_failed")
                /\ pc' = [pc EXCEPT ![t] = "return"]
    /\ UNCHANGED <<stream_recovery, active_streams, inst, stream_lock, mon, rec>>

\* StreamManager.delete_stream: with the stream registered it calls self.stop_stream,
\* which waits for stream_lock while this thread holds it
DeleteStream(t) ==
    /\ pc[t] = "locked" /\ req[t].op = "delete"
    /\ LET id == req[t].id
       IN  IF Registered(id)
           THEN /\ req' = [req EXCEPT ![t].op = "stop", ![t].caller = "delete"]
                /\ pc' = [pc EXCEPT ![t] = "blocked"]
                /\ UNCHANGED db_streams
           ELSE /\ db_streams' = db_delete_stream(db_streams, id)
                /\ req' = Result(t, TRUE, "deleted")
                /\ pc' = [pc EXCEPT ![t] = "return"]
    /\ UNCHANGED <<stream_recovery, active_streams, inst, stream_lock, mon, rec>>

\* ------------------------------------------------------------------ attempt_recovery

\* attempt_recovery up to the call of _execute_recovery_strategy: the
\* recovery_in_progress check, the flag, the strategy of the first tag and the
\* stream_recovery row; create_recovery_attempt raising ends it in the except branch
\* (i is the instance as the caller has left it)
AttemptRecovery(t, id, i, tags, path, fault) ==
    LET frame == [NoRec EXCEPT !.id = id, !.path = path, !.tags = tags,
                               !.dead = DeadNames(i.processes),
                               !.was_live = (i.status = "live"),
                               !.fc_before = i.failure_count,
                               !.tier_before = i.quality,
                               !.failed_at_low = rec.failed_at_low]
    IN  IF i.recovery_in_progress
        THEN /\ rec' = [frame EXCEPT !.rejected = TRUE]
             /\ pc' = [pc EXCEPT ![t] = "rec_ret"]
             /\ inst' = [inst EXCEPT ![id] = i]
             /\ UNCHANGED stream_recovery
        ELSE IF fault = "create"
        THEN /\ rec' = [frame EXCEPT !.fault = fault]
             /\ pc' = [pc EXCEPT ![t] = "rec_ret"]
             /\ inst' = [inst EXCEPT ![id] = i]
             /\ UNCHANGED stream_recovery
        ELSE /\ rec' = [frame EXCEPT !.strategy = select_recovery_strategy(tags[1])]
             /\ inst' = [inst EXCEPT ![id] = [i EXCEPT !.recovery_in_progress = TRUE,
                                                       !.active_recovery_id = TRUE]]
             /\ stream_recovery' = [stream_recovery EXCEPT ![id] = @ + 1]
             /\ pc' = [pc EXCEPT ![t] = "rec_exec"]

\* the faults the scope allows at the entry of attempt_recovery
EntryFaults(S) == S.faults \cap {"none", "create"}

\* a recovery may start: the model's cap on failure_count and on open rows
MayRecover(S, id) ==
    /\ inst[id].failure_count <= S.maxfc
    /\ stream_recovery[id] < MaxOpenRows

\* a manual recovery that hands on what the classifier returned
manual_failure_types_detected(detected) == detected

\* api_manual_recovery: "force a diagnostic recovery" when nothing is detected
manual_failure_types(detected) ==
    IF detected = <<>> \/ detected = <<"unknown_failure">>
    THEN <<"manual_recovery">> ELSE detected

\* api_manual_recovery up to and including the entry of attempt_recovery
ManualRecovery(S, t) ==
    /\ pc[t] = "locked" /\ req[t].op = "recover"
    /\ LET id == req[t].id
       IN  IF ~Registered(id)
           THEN /\ req' = Result(t, FALSE, "not_active")
                /\ pc' = [pc EXCEPT ![t] = "return"]
                /\ UNCHANGED <<inst, stream_recovery, rec>>
           ELSE IF inst[id].recovery_in_progress
           THEN /\ req' = Result(t, FALSE, "in_progress")
                /\ pc' = [pc EXCEPT ![t] = "return"]
                /\ UNCHANGED <<inst, stream_recovery, rec>>
           ELSE /\ MayRecover(S, id)
                /\ \E m \in MetricSamples(S, inst[id]), f \in EntryFaults(S) :
                     LET failure_types ==
                             manual_failure_types(detect_failure_type(inst[id], m))
                     IN  AttemptRecovery(t, id, inst[id], failure_types, "manual", f)
                /\ UNCHANGED req
    /\ UNCHANGED <<db_streams, active_streams, stream_lock, mon>>

\* the choices a strategy reads: the single-process restarts wait for one child and
\* relaunch it, the others run the start sequence
StrategyChoices(strategy) ==
    IF strategy \in {"restart_ffmpeg", "restart_renderer", "reconnect_stream"}
    THEN {c \in Choices : ~c.headless /\ c.x11 = 3 /\ ~c.chrome /\ c.early = "none"}
    ELSE StartChoices

\* _execute_recovery_strategy, called by attempt_recovery
ExecuteRecovery(S, t) ==
    /\ pc[t] = "rec_exec"
    /\ \E c \in StrategyChoices(rec.strategy) :
         \E r \in {execute_recovery_strategy(rec.strategy, inst[rec.id], c)} :
             /\ c.early \in {"none"} \cup S.mortal
             /\ r.inst.orphans <= S.orphans
             /\ inst' = [inst EXCEPT ![rec.id] = r.inst]
             /\ db_streams' = IF r.dbq # "same" /\ db_streams[rec.id].present
                              THEN [db_streams EXCEPT ![rec.id].quality = r.dbq]
                              ELSE db_streams
             /\ rec' = [rec EXCEPT !.executed = TRUE, !.strategy_ok = r.ok,
                           !.launches_ok =
                               IF rec.strategy \in {"restart_ffmpeg", "restart_renderer",
                                                    "reconnect_stream"}
                               THEN c.launch ELSE AllLaunchesSucceed(c)]
    /\ pc' = [pc EXCEPT ![t] = "rec_finish"]
    /\ UNCHANGED <<stream_recovery, active_streams, stream_lock, req, mon>>

\* an outcome branch that emits the alert whatever the strategy returned
finish_recovery_always_alerts(i, r, fault) ==
    LET cleared == [i EXCEPT !.recovery_in_progress = FALSE, !.active_recovery_id = FALSE]
    IN  IF fault = "update"
        THEN [inst |-> cleared, updated |-> FALSE, alerted |-> FALSE, returned |-> FALSE]
        ELSE IF r.strategy_ok
        THEN [inst |-> [cleared EXCEPT !.failure_count = Max(0, i.failure_count - 1)],
              updated |-> TRUE, alerted |-> fault # "post", returned |-> fault # "post"]
        ELSE [inst |-> [cleared EXCEPT !.failure_count = i.failure_count + 1],
              updated |-> TRUE, alerted |-> fault # "post", returned |-> FALSE]

\* an outcome branch that decrements failure_count without the floor at 0
finish_recovery_no_floor(i, r, fault) ==
    LET cleared == [i EXCEPT !.recovery_in_progress = FALSE, !.active_recovery_id = FALSE]
    IN  IF fault = "update"
        THEN [inst |-> cleared, updated |-> FALSE, alerted |-> FALSE, returned |-> FALSE]
        ELSE IF r.strategy_ok
        THEN [inst |-> [cleared EXCEPT !.failure_count = i.failure_count - 1],
              updated |-> TRUE, alerted |-> FALSE, returned |-> fault # "post"]
        ELSE [inst |-> [cleared EXCEPT !.failure_count = i.failure_count + 1],
              updated |-> TRUE, alerted |-> fault # "post", returned |-> FALSE]

\* attempt_recovery after the strategy: update_recovery_attempt, failure_count, the
\* critical alert, the flag reset; a database call raising ends it in the except branch
finish_recovery(i, r, fault) ==
    LET cleared == [i EXCEPT !.recovery_in_progress = FALSE, !.active_recovery_id = FALSE]
    IN  IF fault = "update"
        THEN [inst |-> cleared, updated |-> FALSE, alerted |-> FALSE, returned |-> FALSE]
        ELSE IF r.strategy_ok
        THEN [inst |-> [cleared EXCEPT !.failure_count = Max(0, i.failure_count - 1)],
              updated |-> TRUE, alerted |-> FALSE, returned |-> fault # "post"]
        ELSE [inst |-> [cleared EXCEPT !.failure_count = i.failure_count + 1],
              updated |-> TRUE, alerted |-> fault # "post", returned |-> FALSE]

FinishRecovery(S, t) ==
    /\ pc[t] = "rec_finish"
    /\ \E fault \in S.faults \ {"create"} :
         LET f == finish_recovery(inst[rec.id], rec, fault)
         IN  /\ inst' = [inst EXCEPT ![rec.id] = f.inst]
             /\ stream_recovery' = IF f.updated
                                   THEN [stream_recovery EXCEPT ![rec.id] = @ - 1]
                                   ELSE stream_recovery
             /\ rec' = [rec EXCEPT !.returned = f.returned, !.alerted = f.alerted,
                                   !.fault = fault]
    /\ pc' = [pc EXCEPT ![t] = "rec_ret"]
    /\ UNCHANGED <<db_streams, active_streams, stream_lock, req, mon>>

\* an error branch that sets the status and leaves the children as they are
mark_error_no_cleanup(i) == [i EXCEPT !.status = "error"]

\* what the monitor does with a failed hard-failure recovery
mark_error(i) == [cleanup(i) EXCEPT !.status = "error"]

\* attempt_recovery has returned to its caller: api_manual_recovery returns the result;
\* the monitor's hard-failure path cleans up and marks the stream error on failure;
\* its preemptive path only raises an info alert on success
ReturnRecovery(t) ==
    /\ pc[t] = "rec_ret"
    /\ IF t = MonitorThread
       THEN /\ inst' = IF rec.path = "hard" /\ ~rec.returned
                       THEN [inst EXCEPT ![rec.id] = mark_error(inst[rec.id])]
                       ELSE inst
            /\ mon' = [mon EXCEPT !.todo = Tail(mon.todo)]
            /\ pc' = [pc EXCEPT ![t] = "mon_loop"]
            /\ req' = req
       ELSE /\ req' = Result(t, rec.returned,
                             IF rec.rejected THEN "in_progress"
                             ELSE IF rec.fault # "none" THEN "exception"
                             ELSE IF rec.returned THEN "recovered" ELSE "recovery_failed")
            /\ pc' = [pc EXCEPT ![t] = "return"]
            /\ UNCHANGED <<inst, mon>>
    /\ rec' = [NoRec EXCEPT !.failed_at_low =
                   IF /\ rec.strategy = "reduce_quality" /\ rec.executed
                      /\ ~rec.strategy_ok /\ rec.tier_before = "low"
                   THEN rec.failed_at_low \cup {rec.id} ELSE rec.failed_at_low]
    /\ UNCHANGED <<db_streams, stream_recovery, active_streams, stream_lock>>

\* ------------------------------------------------------------------ monitor thread

\* _monitor_streams: the top of the loop reaches `with stream_lock`
MonitorWake(due) ==
    /\ pc[MonitorThread] = "idle"
    /\ IF stream_lock = "free"
       THEN /\ stream_lock' = MonitorThread
            /\ pc' = [pc EXCEPT ![MonitorThread] = "mon_loop"]
            /\ mon' = [todo |-> active_streams, metrics_due |-> due]
       ELSE /\ due = FALSE
            /\ pc' = [pc EXCEPT ![MonitorThread] = "blocked"]
            /\ UNCHANGED <<stream_lock, mon>>
    /\ UNCHANGED <<db_streams, stream_recovery, active_streams, inst, req, rec>>

\* the instance the monitor's for loop is at
Visiting(id) == pc[MonitorThread] = "mon_loop" /\ mon.todo # <<>> /\ Head(mon.todo) = id

\* whether the monitor looks at an instance at all
monitored(i) == i.status = "live"

\* a loop that clears the error status of the instances it passes over
MonitorSkipClearsError(id) ==
    /\ Visiting(id)
    /\ ~monitored(inst[id])
    /\ mon' = [mon EXCEPT !.todo = Tail(mon.todo)]
    /\ inst' = [inst EXCEPT ![id].status =
                   IF inst[id].status = "error" THEN "stopped" ELSE inst[id].status,
                              ![id].failure_count =
                   IF inst[id].status = "error" THEN 0 ELSE inst[id].failure_count]
    /\ UNCHANGED <<db_streams, stream_recovery, active_streams, stream_lock, pc, req, rec>>

\* an instance the loop passes over: status is not live
MonitorSkip(id) ==
    /\ Visiting(id)
    /\ ~monitored(inst[id])
    /\ mon' = [mon EXCEPT !.todo = Tail(mon.todo)]
    /\ UNCHANGED <<db_streams, stream_recovery, active_streams, inst, stream_lock, pc, req, rec>>

\* a live instance with a dead child: detect_failure_type, attempt_recovery
MonitorFailure(S, id) ==
    /\ Visiting(id)
    /\ monitored(inst[id])
    /\ DeadNames(inst[id].processes) # {}
    /\ MayRecover(S, id)
    /\ \E m \in MetricSamples(S, inst[id]), f \in EntryFaults(S) :
         AttemptRecovery(MonitorThread, id, inst[id],
                         detect_failure_type(inst[id], m), "hard", f)
    /\ UNCHANGED <<db_streams, active_streams, stream_lock, req, mon>>

\* a live instance with every child running, between two metrics intervals
MonitorQuiet(id) ==
    /\ Visiting(id)
    /\ monitored(inst[id])
    /\ DeadNames(inst[id].processes) = {}
    /\ ~mon.metrics_due
    /\ mon' = [mon EXCEPT !.todo = Tail(mon.todo)]
    /\ UNCHANGED <<db_streams, stream_recovery, active_streams, inst, stream_lock, pc, req, rec>>

\* a live instance with every child running when metrics are due: collect_metrics,
\* calculate_health_score, and the preemptive recovery below 50
MonitorMetrics(S, id) ==
    /\ Visiting(id)
    /\ monitored(inst[id])
    /\ DeadNames(inst[id].processes) = {}
    /\ mon.metrics_due
    /\ \E m1 \in MetricSamples(S, inst[id]) :
         LET h == calculate_health_score(inst[id], m1)
             scored == [inst[id] EXCEPT !.health_score = h]
         IN  IF h < 5000 /\ ~inst[id].recovery_in_progress
             THEN \E m2 \in MetricSamples(S, inst[id]), f \in EntryFaults(S) :
                    LET failure_types == detect_failure_type(scored, m2)
                    IN  IF \A k \in 1..Len(failure_types) :
                                failure_types[k] # "unknown_failure"
                        THEN /\ MayRecover(S, id)
                             /\ AttemptRecovery(MonitorThread, id, scored,
                                                failure_types, "preemptive", f)
                             /\ UNCHANGED mon
                        ELSE /\ inst' = [inst EXCEPT ![id] = scored]
                             /\ mon' = [mon EXCEPT !.todo = Tail(mon.todo)]
                             /\ UNCHANGED <<stream_recovery, pc, rec>>
             ELSE /\ inst' = [inst EXCEPT ![id] = scored]
                  /\ mon' = [mon EXCEPT !.todo = Tail(mon.todo)]
                  /\ UNCHANGED <<stream_recovery, pc, rec>>
    /\ UNCHANGED <<db_streams, active_streams, stream_lock, req>>

\* the for loop is over: the with block exits and the thread sleeps
MonitorRelease ==
    /\ pc[MonitorThread] = "mon_loop"
    /\ mon.todo = <<>>
    /\ stream_lock' = "free"
    /\ pc' = [pc EXCEPT ![MonitorThread] = "idle"]
    /\ mon' = [todo |-> <<>>, metrics_due |-> FALSE]
    /\ UNCHANGED <<db_streams, stream_recovery, active_streams, inst, req, rec>>

\* ------------------------------------------------------------------ environment

\* a child process of a registered instance exits (poll() is no longer None)
ProcessExits(S, id, k) ==
    /\ Registered(id)
    /\ k \in 1..Len(inst[id].processes)
    /\ inst[id].processes[k].alive
    /\ inst[id].processes[k].name \in S.mortal
    /\ inst' = [inst EXCEPT ![id].processes[k].alive = FALSE]
    /\ UNCHANGED <<db_streams, stream_recovery, active_streams, stream_lock, pc, req, mon, rec>>

\* ------------------------------------------------------------------ specifications

ApiOps == {"start", "stop", "update", "delete", "recover"}

NextIn(S) ==
    \/ \E id \in S.ids, q \in S.create : CreateStream(id, q)
    \/ \E t \in S.apis, op \in ApiOps, id \in S.ids, data \in S.update \cup {"none"} :
          Call(t, op, id, data)
    \/ \E t \in Threads, due \in BOOLEAN : Acquire(t, due)
    \/ \E t \in ApiThreads : Return(t)
    \/ \E t \in ApiThreads, c \in StartChoices : StartStream(S, t, c)
    \/ \E t \in ApiThreads : StopStream(t)
    \/ \E t \in ApiThreads : UpdateStream(t)
    \/ \E t \in ApiThreads : DeleteStream(t)
    \/ \E t \in ApiThreads : ManualRecovery(S, t)
    \/ \E t \in Threads : ExecuteRecovery(S, t)
    \/ \E t \in Threads : FinishRecovery(S, t)
    \/ \E t \in Threads : ReturnRecovery(t)
    \/ \E due \in BOOLEAN : MonitorWake(due)
    \/ \E id \in S.ids : MonitorSkip(id)
    \/ \E id \in S.ids : MonitorFailure(S, id)
    \/ \E id \in S.ids : MonitorQuiet(id)
    \/ \E id \in S.ids : MonitorMetrics(S, id)
    \/ MonitorRelease
    \/ \E id \in S.ids, k \in 1..Cardinality(ChildNames) : ProcessExits(S, id, k)

\* one pipeline, followed until its failure_count reaches the cap
Next == NextIn(ScopeOne)
Spec == Init /\ [][Next]_vars

\* two pipelines
NextTwo == NextIn(ScopeTwo)
SpecTwo == Init /\ [][NextTwo]_vars

\* one pipeline, followed far enough for its health to fall below 50
NextDeep == NextIn(ScopeDeep)
SpecDeep == Init /\ [][NextDeep]_vars

\* one pipeline created at the top of the ladder, its tier written by nothing but
\* _reduce_quality
ScopeTier == [configs |-> {DefaultConfig}, create |-> {"ultra"}, update |-> {"nofields"}, ids |-> {"s1"},
              apis |-> {"api1"}, maxfc |-> MaxFailureCountTwo, faults |-> {"none"},
              samples |-> {IdleSample, [cpu |-> 95, mem |-> 2500]}, mortal |-> {"ffmpeg"},
              orphans |-> MaxOrphansElsewhere]
NextTier == NextIn(ScopeTier)
SpecTier == Init /\ [][NextTier]_vars

\* one pipeline one of whose targets, the primary or an additional one, names a
\* platform that platform_configs does not hold; such a pipeline never gets live, so
\* the steps that need a live pipeline are left out
ScopeUnresolved ==
    [configs |-> { [platform |-> "nowhere", items |-> <<>>],
                   [platform |-> "youtube",
                    items |-> << [platform |-> "nowhere", stream_key |-> "keyD",
                                  rtmp_url |-> "", enabled |-> TRUE] >>] },
     create |-> CreateTiers, update |-> UpdateData, ids |-> {"s1"}, apis |-> {"api1"},
     maxfc |-> MaxFailureCount, faults |-> {"none"}, samples |-> {IdleSample},
     mortal |-> {}, orphans |-> MaxOrphans]
NextUnresolved ==
    \/ \E q \in ScopeUnresolved.create : CreateStream("s1", q)
    \/ \E op \in ApiOps, data \in ScopeUnresolved.update \cup {"none"} :
          Call("api1", op, "s1", data)
    \/ \E t \in Threads, due \in BOOLEAN : Acquire(t, due)
    \/ Return("api1")
    \/ \E c \in StartChoices : StartStream(ScopeUnresolved, "api1", c)
    \/ StopStream("api1")
    \/ UpdateStream("api1")
    \/ DeleteStream("api1")
    \/ ManualRecovery(ScopeUnresolved, "api1")
    \/ ExecuteRecovery(ScopeUnresolved, "api1")
    \/ FinishRecovery(ScopeUnresolved, "api1")
    \/ ReturnRecovery("api1")
    \/ \E due \in BOOLEAN : MonitorWake(due)
    \/ MonitorSkip("s1")
    \/ MonitorRelease
SpecUnresolved == Init /\ [][NextUnresolved]_vars

\* one pipeline, with the recovery-table calls of attempt_recovery allowed to raise
NextFault == NextIn(ScopeFault)
SpecFault == Init /\ [][NextFault]_vars

\* one pipeline and two API threads
NextPair == NextIn(ScopePair)
SpecPair == Init /\ [][NextPair]_vars

\* ------------------------------------------------------------------ claims

RecoveryFrames == {"rec_exec", "rec_finish", "rec_ret"}

\* C1: a manual_recover request that arrives while a recovery of the same pipeline is
\* in progress is rejected with 'recovery already in progress' and executes no
\* strategy (it is not queued to run once the first recovery is over).
C1_SecondRequestRejected ==
    \A t \in ApiThreads :
        (req[t].op = "recover" /\ req[t].during)
            => /\ pc[t] \notin {"rec_exec", "rec_finish"}
               /\ (pc[t] = "return" => req[t].msg = "in_progress")

\* C2: in every reachable state every pipeline has at most one stream_recovery row
\* that was created and never updated with its outcome, also after recoveries that
\* ended in attempt_recovery's except branch.
C2_AtMostOneUnresolved == \A id \in StreamIds : stream_recovery[id] <= 1

\* C3: full_restart executed as a recovery on a live pipeline returns success and
\* leaves the pipeline live whenever every child launch of its start sequence succeeds.
C3_FullRestartSucceeds ==
    \A t \in Threads :
        (/\ pc[t] = "rec_finish"
         /\ rec.strategy \in {"full_restart", "restart_all", "restart_display"}
         /\ rec.was_live
         /\ rec.launches_ok)
            => (rec.strategy_ok /\ inst[rec.id].status = "live")

\* the monitor's recovery of an instance whose only dead child is the encoder,
\* at each of its steps
C4_EncoderFrame ==
    (/\ pc[MonitorThread] \in RecoveryFrames
     /\ rec.path = "hard"
     /\ rec.dead = {"ffmpeg"})
        => /\ rec.tags[1] = "process_failure_ffmpeg"
           /\ rec.strategy = "restart_ffmpeg"
           /\ ~rec.rejected
           /\ inst[rec.id].status = "live"
           /\ (pc[MonitorThread] = "rec_finish" /\ rec.launches_ok => rec.strategy_ok)
           /\ (pc[MonitorThread] = "rec_ret" /\ rec.launches_ok
                 => /\ rec.returned
                    /\ ~rec.alerted
                    /\ inst[rec.id].failure_count = Max(0, rec.fc_before - 1))

\* C4: when only the encoder of a live pipeline is dead, the monitor's pass classifies
\* process_failure_ffmpeg first, selects and executes restart_ffmpeg, and with the
\* relaunch succeeding attempt_recovery returns success with failure_count
\* decremented (floored at 0) and no critical alert; the pipeline stays live when the
\* monitor moves on, its status never being error.
C4_EncoderRestarted ==
    /\ [](C4_EncoderFrame)
    /\ [][(/\ pc[MonitorThread] = "rec_ret"
           /\ rec.path = "hard"
           /\ rec.dead = {"ffmpeg"}
           /\ rec.launches_ok)
             => inst'[rec.id].status = "live"]_vars

C4_Witness ==
    /\ pc[MonitorThread] = "rec_ret"
    /\ rec.path = "hard"
    /\ rec.dead = {"ffmpeg"}
    /\ rec.launches_ok
    /\ rec.returned
    /\ rec.fc_before = 1
    /\ inst[rec.id].failure_count = 0
    /\ AliveNames(inst[rec.id].processes) = {"display", "renderer", "ffmpeg"}

\* C5: a pipeline in error status becomes live only in a step of start_stream for it:
\* no monitor pass, manual_recover, metrics collection or health scoring does that.
C5_ErrorLeftOnlyByStart ==
    [][\A id \in StreamIds :
         (inst[id].status = "error" /\ inst'[id].status = "live")
            => \E t \in ApiThreads :
                  pc[t] = "locked" /\ req[t].op = "start" /\ req[t].id = id]_vars

\* C6: a monitor pass over an instance whose status is error leaves the instance
\* (status, process set, failure_count, recovery flag), the recovery table and the
\* recovery frame unchanged and goes on with the loop.
C6_MonitorLeavesError ==
    [][\A id \in StreamIds :
         (Visiting(id) /\ inst[id].status = "error" /\ mon' # mon)
            => /\ inst'[id] = inst[id]
               /\ stream_recovery' = stream_recovery
               /\ rec' = rec
               /\ pc'[MonitorThread] = "mon_loop"]_vars

C6_Witness ==
    \E id \in StreamIds :
        /\ Visiting(id)
        /\ inst[id].status = "error"
        /\ inst[id].failure_count > 0

\* C7: whenever attempt_recovery has executed a strategy and returns failure, on the
\* monitor's hard-failure path, its preemptive path or manual_recover, the caller
\* leaves the pipeline in error status.
C7_FailedRecoveryMarksError ==
    [][\A t \in Threads :
         (/\ pc[t] = "rec_ret" /\ pc'[t] # "rec_ret"
          /\ rec.executed
          /\ ~rec.returned)
            => inst'[rec.id].status = "error"]_vars

\* C8: update_stream for a registered pipeline completes: the thread executing it
\* is never left waiting for stream_lock while holding stream_lock itself (a wait
\* that cannot end, since threading.Lock is released only by its holder).
C8_UpdateCompletes ==
    \A t \in ApiThreads :
        req[t].caller = "update" => ~(pc[t] = "blocked" /\ stream_lock = t)

\* C9: delete_stream for a registered pipeline completes: the thread executing it
\* is never left waiting for stream_lock while holding stream_lock itself.
C9_DeleteCompletes ==
    \A t \in ApiThreads :
        req[t].caller = "delete" => ~(pc[t] = "blocked" /\ stream_lock = t)

\* C10: while a recovery strategy is executing for pipeline A, a start or stop request
\* for another pipeline B is not kept waiting for the lock held on behalf of A.
C10_OtherPipelineNotBlocked ==
    \A t \in Threads, u \in ApiThreads :
        ~(/\ t # u
          /\ stream_lock = t
          /\ pc[t] \in {"rec_exec", "rec_finish"}
          /\ pc[u] = "blocked"
          /\ req[u].op \in {"start", "stop"}
          /\ req[u].id # rec.id)

\* a thread is inside the body of an operation on instance id: an API handler past
\* its `with stream_lock`, or the monitor at (or recovering) that instance
ExecutingOn(t, id) ==
    IF t = MonitorThread
    THEN Visiting(id) \/ (pc[t] \in RecoveryFrames /\ rec.id = id)
    ELSE pc[t] \in {"locked", "return"} \cup RecoveryFrames /\ req[t].id = id

\* C11: in no reachable state are two threads (API threads running start, stop,
\* update, delete or manual-recover, or the monitor in its pass) executing on the
\* same instance at the same time.
C11_MutuallyExclusive ==
    \A id \in StreamIds : \A t \in Threads : \A u \in Threads \ {t} :
        ~(ExecutingOn(t, id) /\ ExecutingOn(u, id))

C11_Witness ==
    /\ ExecutingOn("api1", "s1") /\ req["api1"].op = "stop" /\ Registered("s1")
    /\ pc["api2"] = "blocked" /\ req["api2"].op = "start" /\ req["api2"].id = "s1"
    /\ pc[MonitorThread] = "blocked"

\* C12: the status of an instance never goes from stopped or error directly to live:
\* a successful start passes through starting first.
C12_LiveOnlyAfterStarting ==
    [][\A id \in StreamIds :
         inst[id].status \in {"stopped", "error"} => inst'[id].status # "live"]_vars

\* C13: a live instance is moved to error only when none of its child processes is
\* alive and the recovery attempted for it has failed.
C13_ErrorOnlyWhenAllDead ==
    [][\A id \in StreamIds :
         (inst[id].status = "live" /\ inst'[id].status = "error")
            => /\ AliveNames(inst[id].processes) = {}
               /\ rec.id = id /\ rec.executed /\ ~rec.returned]_vars

\* C14: stop on a registered instance, whatever its status and process set, returns
\* success and leaves the instance stopped with an empty process set; on an instance
\* that was already stopped with an empty set it changes nothing.
C14_StopReleasesAll ==
    \A t \in ApiThreads :
        (pc[t] = "return" /\ req[t].op = "stop" /\ req[t].was.status # "none")
            => /\ req[t].ok
               /\ inst[req[t].id].status = "stopped"
               /\ inst[req[t].id].processes = <<>>
               /\ LET found == [NoInstance EXCEPT !.status = req[t].was.status,
                                                  !.processes = req[t].was.processes]
                  IN  /\ stop_streaming(stop_streaming(found)) = stop_streaming(found)
                      /\ (found.status = "stopped" /\ found.processes = <<>>
                            => stop_streaming(found) = found)

C14_Witness ==
    \E t \in ApiThreads :
        /\ pc[t] = "return" /\ req[t].op = "stop" /\ req[t].ok
        /\ req[t].was.status = "live"
        /\ AliveNames(req[t].was.processes) # {}
        /\ DeadNames(req[t].was.processes) # {}
        /\ inst[req[t].id].processes = <<>>

\* C15: whenever start_stream returns the failure of its start sequence, the
\* instance is left with status stopped and an empty process set, and no child launched
\* during the attempt is left running.
C15_FailedStartReleasesAll ==
    [][\A t \in ApiThreads :
         (/\ pc[t] = "locked" /\ req[t].op = "start"
          /\ pc'[t] = "return" /\ req'[t].msg = "start_error")
            => /\ ~req'[t].ok
               /\ inst'[req[t].id].status = "stopped"
               /\ inst'[req[t].id].processes = <<>>
               /\ inst'[req[t].id].orphans = inst[req[t].id].orphans]_vars

\* C16: whenever start_stream returns success and the instance is live, every
\* child of its process set is alive at that moment: a child that exited while the
\* start sequence was still running makes the start fail.
C16_StartedMeansAllAlive ==
    [][\A t \in ApiThreads :
         (/\ pc[t] = "locked" /\ req[t].op = "start"
          /\ pc'[t] = "return" /\ req'[t].ok /\ req'[t].msg = "started")
            => DeadNames(inst'[req[t].id].processes) = {}]_vars

\* a step in which attempt_recovery, its strategy executed, runs its outcome branch
\* for instance id to the end (no database call raising)
CompletesRecovery(id) ==
    \E t \in Threads :
        /\ pc[t] = "rec_finish" /\ pc'[t] = "rec_ret"
        /\ rec.id = id /\ rec'.fault = "none"

\* C17: a recovery execution that completes leaves failure_count at
\* max(0, previous - 1) when the strategy succeeded and at previous + 1 when it
\* failed; the failure_count of an instance changes in no other step, and it is never
\* negative.
C17_FailureCountFollowsRecovery ==
    /\ [](\A id \in StreamIds : inst[id].failure_count >= 0)
    /\ [][\A id \in StreamIds :
            /\ CompletesRecovery(id)
                 => inst'[id].failure_count =
                       IF rec.strategy_ok THEN Max(0, inst[id].failure_count - 1)
                       ELSE inst[id].failure_count + 1
            /\ (/\ Registered(id) /\ Registered(id)'
                /\ inst'[id].failure_count # inst[id].failure_count)
                 => \E t \in Threads : pc[t] = "rec_finish" /\ rec.id = id]_vars

C17_Witness ==
    \E t \in Threads :
        /\ pc[t] = "rec_ret" /\ rec.fault = "none" /\ rec.executed
        /\ rec.strategy_ok /\ rec.returned
        /\ rec.fc_before = 0 /\ inst[rec.id].failure_count = 0

C19_RecordCreatedThenUpdated ==
    /\ [](\A t \in Threads :
             pc[t] \in {"rec_exec", "rec_finish"} => stream_recovery[rec.id] >= 1)
    /\ [][\A t \in Threads :
             pc[t] = "rec_finish" /\ pc'[t] = "rec_ret"
                => stream_recovery'[rec.id] = stream_recovery[rec.id] - 1]_vars

\* ------------------------------------------------------------------ the classifier alone

\* a registered pipeline in any state of its children and of its health score: live
\* with an X11 process set, or stopped with none
InitDetect ==
    /\ db_streams = [id \in StreamIds |->
                        [present |-> (id = "s1"), quality |-> "medium"]]
    /\ stream_recovery = [id \in StreamIds |-> 0]
    /\ active_streams = <<"s1">>
    /\ \E h \in DetectHealths, live \in BOOLEAN :
         \E p \in (IF live THEN DetectProcesses ELSE {<<>>}) :
             inst = [id \in StreamIds |->
                        IF id = "s1"
                        THEN [NoInstance EXCEPT !.status = IF live THEN "live" ELSE "stopped",
                                                !.processes = p, !.health_score = h]
                        ELSE NoInstance]
    /\ stream_lock = "free"
    /\ pc = [t \in Threads |-> "idle"]
    /\ req = [t \in Threads |-> NoReq]
    /\ mon = [todo |-> <<>>, metrics_due |-> FALSE]
    /\ rec = NoRec

\* one call of detect_failure_type: collect_metrics, then the tags
DetectFailure(id) ==
    /\ pc[MonitorThread] = "idle"
    /\ \E reading \in DetectSamples :
         \E metrics \in {collect_metrics(inst[id], reading)} :
             rec' = [NoRec EXCEPT !.id = id, !.metrics = metrics,
                                  !.dead = DeadNames(inst[id].processes),
                                  !.tags = detect_tags(inst[id].processes, metrics,
                                                       inst[id].health_score)]
    /\ pc' = [pc EXCEPT ![MonitorThread] = "detected"]
    /\ UNCHANGED <<db_streams, stream_recovery, active_streams, inst, stream_lock, req, mon>>

NextDetect == \E id \in {"s1"} : DetectFailure(id)

SpecDetect == InitDetect /\ [][NextDetect]_vars

\* C20: detect_failure_type returns a non-empty list whose tags are exactly those of
\* the symptom table: process_failure_<name> for the children that have exited and no
\* other, high_cpu iff cpu > 90, memory_exhaustion iff memory > 2000, connection_issues
\* iff frame_drops > 50, critical_health iff health_score < 30, and unknown_failure iff
\* no other tag applies.
C20_TagsFollowSymptomTable ==
    pc[MonitorThread] = "detected"
        => LET tags == {rec.tags[k] : k \in 1..Len(rec.tags)}
               i == inst[rec.id]
               m == rec.metrics
               exited == DeadNames(i.processes)
               other == \/ exited # {} \/ m.cpu > 90 \/ m.mem > 2000
                        \/ m.drops > 50 \/ i.health_score < 3000
           IN  /\ rec.tags # <<>>
               /\ \A n \in ChildNames : ("process_failure_" \o n) \in tags <=> n \in exited
               /\ "high_cpu" \in tags <=> m.cpu > 90
               /\ "memory_exhaustion" \in tags <=> m.mem > 2000
               /\ "connection_issues" \in tags <=> m.drops > 50
               /\ "critical_health" \in tags <=> i.health_score < 3000
               /\ "unknown_failure" \in tags <=> ~other
               /\ tags \subseteq {"process_failure_" \o n : n \in ChildNames}
                                  \cup {"high_cpu", "memory_exhaustion", "connection_issues",
                                        "critical_health", "unknown_failure"}

C20_Witness ==
    /\ pc[MonitorThread] = "detected"
    /\ rec.metrics = [cpu |-> 91, mem |-> 2000, drops |-> 51]
    /\ inst[rec.id].health_score = 2999
    /\ rec.tags = <<"process_failure_display", "process_failure_ffmpeg", "high_cpu",
                    "connection_issues", "critical_health">>

\* ------------------------------------------------------------------ the planner alone

ScopePlan == [configs |-> {DefaultConfig}, create |-> CreateTiers, update |-> UpdateData, ids |-> {"s1"}, apis |-> {"api1"}, maxfc |-> MaxFailureCount,
              faults |-> {"none"}, samples |-> {IdleSample}, mortal |-> {},
              orphans |-> MaxOrphansElsewhere]

\* a registered pipeline in any tier, live with an X11 process set in any state of
\* its children or stopped with none, visited by the monitor pass
InitPlan ==
    /\ \E q \in Tiers, live \in BOOLEAN :
         \E p \in (IF live THEN DetectProcesses ELSE {<<>>}) :
            /\ db_streams = [id \in StreamIds |-> [present |-> (id = "s1"),
                                                   quality |-> IF id = "s1" THEN q ELSE "medium"]]
            /\ inst = [id \in StreamIds |->
                        IF id = "s1"
                        THEN [NewInstance(q) EXCEPT !.status = IF live THEN "live" ELSE "stopped",
                                                    !.processes = p]
                        ELSE NoInstance]
    /\ stream_recovery = [id \in StreamIds |-> 0]
    /\ active_streams = <<"s1">>
    /\ stream_lock = MonitorThread
    /\ pc = [t \in Threads |-> IF t = MonitorThread THEN "mon_loop" ELSE "idle"]
    /\ req = [t \in Threads |-> NoReq]
    /\ mon = [todo |-> <<"s1">>, metrics_due |-> FALSE]
    /\ rec = NoRec

\* attempt_recovery called with one tag first in failure_types
PlanRecovery(id, tag) ==
    /\ pc[MonitorThread] = "mon_loop"
    /\ AttemptRecovery(MonitorThread, id, inst[id], <<tag>>, "hard", "none")
    /\ UNCHANGED <<db_streams, active_streams, stream_lock, req, mon>>

NextPlan ==
    \/ \E tag \in PlannerTags : PlanRecovery("s1", tag)
    \/ ExecuteRecovery(ScopePlan, MonitorThread)

SpecPlan == InitPlan /\ [][NextPlan]_vars

\* C21: the strategy is a function of the first tag alone, whatever the state of
\* the pipeline: encoder, renderer and display process failures select restart_ffmpeg,
\* restart_renderer and restart_display, high_cpu reduce_quality, connection_issues
\* reconnect_stream, memory_exhaustion a strategy that runs as a full restart,
\* critical_health, unknown_failure and every other tag full_restart; and
\* restart_display, restart_all and full_restart all execute _full_restart.
C21_PlannerTable ==
    /\ [](pc[MonitorThread] \in {"rec_exec", "rec_finish"}
            => LET tag == rec.tags[1]
               IN  CASE tag = "process_failure_ffmpeg"   -> rec.strategy = "restart_ffmpeg"
                     [] tag = "process_failure_renderer" -> rec.strategy = "restart_renderer"
                     [] tag = "process_failure_display"  -> rec.strategy = "restart_display"
                     [] tag = "high_cpu"                 -> rec.strategy = "reduce_quality"
                     [] tag = "connection_issues"        -> rec.strategy = "reconnect_stream"
                     [] tag = "memory_exhaustion"
                            -> rec.strategy \in {"restart_all", "full_restart"}
                     [] OTHER                            -> rec.strategy = "full_restart")
    /\ [][(/\ pc[MonitorThread] = "rec_exec" /\ pc'[MonitorThread] = "rec_finish"
           /\ rec.strategy \in {"restart_display", "restart_all", "full_restart"})
            => \E c \in StartChoices :
                  /\ inst'[rec.id] = full_restart(inst[rec.id], c).inst
                  /\ rec'.strategy_ok = full_restart(inst[rec.id], c).ok]_vars

C21_Witness ==
    /\ pc[MonitorThread] = "rec_finish"
    /\ rec.tags = <<"process_failure_chrome">> /\ rec.strategy = "full_restart"
    /\ inst[rec.id].quality = "ultra" /\ rec.executed

\* C22: an execution of reduce_quality leaves the tier where it is or moves it one step
\* down the ladder ultra, high, medium, low; no other strategy writes the tier; the
\* tier is always on the ladder, so never below low; and no step of a pipeline moves
\* its stored tier up or by more than one step, so that a pipeline created at ultra is
\* at low after exactly three downgrading executions.
C22_DowngradeOneStep ==
    /\ [](\A id \in StreamIds :
             /\ inst[id].quality \in Tiers
             /\ db_streams[id].quality \in Tiers
             /\ Registered(id) /\ db_streams[id].present
                   => TierIndex(inst[id].quality) >= TierIndex(db_streams[id].quality))
    /\ [][\A t \in Threads :
             pc[t] = "rec_exec" /\ pc'[t] = "rec_finish"
                => LET before == TierIndex(inst[rec.id].quality)
                       after == TierIndex(inst'[rec.id].quality)
                   IN  /\ after \in {before, before + 1}
                       /\ rec.strategy # "reduce_quality" => after = before
                       /\ (rec.strategy = "reduce_quality" /\ before < Len(quality_levels))
                            => (/\ after = before + 1
                                /\ db_streams[rec.id].present
                                      => db_streams'[rec.id].quality = inst'[rec.id].quality)]_vars
    /\ [][\A id \in StreamIds :
             db_streams[id].present /\ db_streams'[id].present
                => \/ db_streams'[id].quality = db_streams[id].quality
                   \/ /\ TierIndex(db_streams'[id].quality)
                            = TierIndex(db_streams[id].quality) + 1
                      /\ \E t \in Threads : pc[t] = "rec_exec" /\ rec.id = id
                                               /\ rec.strategy = "reduce_quality"]_vars

C22_Witness ==
    /\ pc["api1"] = "rec_finish" /\ rec.strategy = "reduce_quality"
    /\ rec.tags[1] = "high_cpu"
    /\ inst[rec.id].quality = "low" /\ db_streams[rec.id].quality = "low"

\* C23: reduce_quality executed on a pipeline whose tier is low returns failure and
\* leaves the instance (tier, process set, status) and the streams table as they were.
C23_ReduceAtLowChangesNothing ==
    [][\A t \in Threads :
          (/\ pc[t] = "rec_exec" /\ pc'[t] = "rec_finish"
           /\ rec.strategy = "reduce_quality"
           /\ inst[rec.id].quality = "low")
             => /\ ~rec'.strategy_ok
                /\ inst'[rec.id] = inst[rec.id]
                /\ db_streams' = db_streams]_vars

C23_Witness ==
    /\ pc["api1"] = "rec_finish" /\ rec.strategy = "reduce_quality"
    /\ rec.executed /\ ~rec.strategy_ok
    /\ inst[rec.id].quality = "low" /\ inst[rec.id].status = "live"
    /\ AliveNames(inst[rec.id].processes) = {"display", "renderer", "ffmpeg"}

\* C24: once reduce_quality has failed on a pipeline whose tier is low, every later
\* recovery of that pipeline planned for a high_cpu tag while the tier is still low
\* executes full_restart.
C24_FallbackAfterFailedDowngrade ==
    [][\A t \in Threads :
          (/\ pc[t] # "rec_exec" /\ pc'[t] = "rec_exec"
           /\ rec'.id \in rec.failed_at_low
           /\ rec'.tags[1] = "high_cpu"
           /\ rec'.tier_before = "low")
             => rec'.strategy = "full_restart"]_vars

\* ------------------------------------------------------------------ the health scorer alone

\* a registered pipeline with any failure history, live with its X11 children running
\* or stopped with none
InitHealth ==
    /\ \E fc \in HealthFailureCounts, live \in BOOLEAN :
         inst = [id \in StreamIds |->
                    IF id = "s1"
                    THEN [NoInstance EXCEPT
                            !.status = IF live THEN "live" ELSE "stopped",
                            !.processes = IF live
                                          THEN SetProcess(SetProcess(SetProcess(<<>>,
                                                   "display"), "renderer"), "ffmpeg")
                                          ELSE <<>>,
                            !.failure_count = fc]
                    ELSE NoInstance]
    /\ db_streams = [id \in StreamIds |-> [present |-> (id = "s1"), quality |-> "medium"]]
    /\ stream_recovery = [id \in StreamIds |-> 0]
    /\ active_streams = <<"s1">>
    /\ stream_lock = MonitorThread
    /\ pc = [t \in Threads |-> IF t = MonitorThread THEN "mon_loop" ELSE "idle"]
    /\ req = [t \in Threads |-> NoReq]
    /\ mon = [todo |-> <<"s1">>, metrics_due |-> TRUE]
    /\ rec = NoRec

\* one call of calculate_health_score: 100.0 for a pipeline that is not live; else the
\* weighted average is stored, then logged, and 50.0 is returned if the logging raises
ScoreHealth(id, reading, logged) ==
    /\ pc[MonitorThread] = "mon_loop"
    /\ IF inst[id].status # "live"
       THEN /\ rec' = [NoRec EXCEPT !.id = id]
            /\ UNCHANGED inst
       ELSE \E h \in {health_score_of(reading, inst[id].failure_count)} :
               /\ inst' = [inst EXCEPT ![id].health_score = h]
               /\ rec' = [NoRec EXCEPT !.id = id, !.metrics = reading, !.logged = logged,
                                        !.health = IF logged THEN h ELSE 5000]
    /\ pc' = [pc EXCEPT ![MonitorThread] = "scored"]
    /\ UNCHANGED <<db_streams, stream_recovery, active_streams, stream_lock, req, mon>>

NextHealth == \E reading \in HealthSamples, logged \in BOOLEAN : ScoreHealth("s1", reading, logged)

SpecHealth == InitHealth /\ [][NextHealth]_vars

\* C25: the health score stored in a pipeline and the value calculate_health_score
\* returns lie within [0, 100], for every reading and failure count, also those
\* that drive a sub-score past its clamp.
C25_HealthWithinBounds ==
    /\ \A id \in StreamIds : inst[id].health_score \in 0..10000
    /\ pc[MonitorThread] = "scored" => rec.health \in 0..10000

C25_Witness ==
    /\ pc[MonitorThread] = "scored" /\ rec.logged
    /\ rec.metrics = [cpu |-> 400, mem |-> 20000, drops |-> 1000]
    /\ inst[rec.id].failure_count = 11
    /\ rec.health = 0 /\ inst[rec.id].health_score = 0

\* C26: for a live pipeline the computed health is 0.4 * performance + 0.4 * connection
\* + 0.2 * stability with performance = clamp(100 - max(0, cpu - 50)
\* - max(0, (memory - 500) / 10), 0, 100), connection = clamp(100 - 2 * frame_drops,
\* 0, 100) and stability = clamp(100 - 10 * failure_count, 0, 100).
C26_HealthFormula ==
    (pc[MonitorThread] = "scored" /\ inst[rec.id].status = "live")
        => LET m == rec.metrics
               performance == Max(0, Min(1000, 1000 - 10 * Max(0, m.cpu - 50)
                                                    - Max(0, m.mem - 500)))
               connection == Max(0, Min(100, 100 - 2 * m.drops))
               stability == Max(0, Min(100, 100 - 10 * inst[rec.id].failure_count))
           IN  inst[rec.id].health_score
                  = 4 * performance + 40 * connection + 20 * stability

\* C27: when the monitor's health pass computes a health below 50 for a live pipeline
\* that is not recovering, the same step of the pass enters attempt_recovery for
\* that pipeline, whatever tags detect_failure_type returned.
C27_LowHealthStartsRecovery ==
    [][\A id \in StreamIds :
          (/\ Visiting(id) /\ mon.metrics_due
           /\ monitored(inst[id]) /\ DeadNames(inst[id].processes) = {}
           /\ ~inst[id].recovery_in_progress
           /\ mon' # mon \/ pc'[MonitorThread] # pc[MonitorThread]
           /\ inst'[id].health_score < 5000)
             => /\ pc'[MonitorThread] \in {"rec_exec", "rec_ret"}
                /\ rec'.id = id /\ rec'.path = "preemptive"]_vars

\* ------------------------------------------------------------------ fan-out alone

\* an instance built from any pipeline config: a primary target and a list of
\* additional targets, held as a list or as the JSON text of the streams table
InitFanout ==
    /\ \E primary \in {"youtube", "custom", "nowhere"}, json \in BOOLEAN,
          items \in FanoutLists :
         inst = [id \in StreamIds |->
                    IF id = "s1"
                    THEN [NoInstance EXCEPT
                            !.platform = primary,
                            !.rtmp_url = IF primary = "custom"
                                         THEN "rtmp://own.example/live" ELSE "",
                            !.multi_stream_targets = [json |-> json, items |-> items]]
                    ELSE NoInstance]
    /\ db_streams = [id \in StreamIds |-> [present |-> (id = "s1"), quality |-> "medium"]]
    /\ stream_recovery = [id \in StreamIds |-> 0]
    /\ active_streams = <<"s1">>
    /\ stream_lock = "api1"
    /\ pc = [t \in Threads |-> IF t = "api1" THEN "locked" ELSE "idle"]
    /\ req = [t \in Threads |-> IF t = "api1" THEN [NoReq EXCEPT !.op = "start"] ELSE NoReq]
    /\ mon = [todo |-> <<>>, metrics_due |-> FALSE]
    /\ rec = NoRec

\* the target resolution and the output arguments of one _start_ffmpeg_stream
ResolveFanout(id) ==
    /\ pc["api1"] = "locked"
    /\ \E r \in {get_stream_targets(inst[id])} :
         rec' = [NoRec EXCEPT !.id = id, !.raised = r.raised, !.targets = r.targets,
                              !.output = IF r.raised THEN NoRec.output
                                         ELSE ffmpeg_output(r.targets)]
    /\ pc' = [pc EXCEPT !["api1"] = "resolved"]
    /\ UNCHANGED <<db_streams, stream_recovery, active_streams, inst, stream_lock, req, mon>>

NextFanout == ResolveFanout("s1")

SpecFanout == InitFanout /\ [][NextFanout]_vars

\* the URL a target stands for: the custom base URL and the key, or the platform's
\* base URL and the key
FanoutUrl(platform, stream_key, custom_url) ==
    IF platform = "custom" THEN custom_url \o "/" \o stream_key
    ELSE platform_configs[platform] \o stream_key

\* C28: when every target of a pipeline can be resolved, fan-out resolution yields the
\* URL of the primary target followed by the URLs of the additional targets in their
\* input order, and the encoder gets a single output iff that list has one entry and
\* otherwise a tee output listing the URLs of the list once each in that order.
C28_FanoutList ==
    LET i == inst["s1"]
        items == i.multi_stream_targets.items
        resolvable == /\ i.platform # "nowhere"
                      /\ \A k \in 1..Len(items) : items[k].platform # "nowhere"
        expected == <<FanoutUrl(i.platform, i.stream_key, i.rtmp_url)>>
                    \o [k \in 1..Len(items) |->
                          FanoutUrl(items[k].platform, items[k].stream_key, items[k].rtmp_url)]
    IN  (pc["api1"] = "resolved" /\ resolvable)
            => /\ ~rec.raised
               /\ rec.targets = expected
               /\ rec.output.urls = expected
               /\ rec.output.mode = IF Len(expected) = 1 THEN "flv" ELSE "tee"

\* C29: a start of a pipeline one of whose targets cannot be resolved is aborted as a
\* whole: it returns failure, the pipeline is not live, no encoder is in its process
\* set, and no child launched during the attempt is still running, with or without
\* a handle.
C29_UnresolvedStartAborts ==
    [][\A t \in ApiThreads :
          (/\ pc[t] = "locked" /\ pc'[t] = "return"
           /\ req[t].op = "start" /\ req[t].caller # "update"
           /\ db_streams[req[t].id].present)
             => LET id == req[t].id
                IN  /\ get_stream_targets(inst'[id]).raised
                    /\ ~req'[t].ok
                    /\ inst'[id].status # "live"
                    /\ "ffmpeg" \notin ProcNames(inst'[id].processes)
                    /\ AliveNames(inst'[id].processes) = {}
                    /\ inst'[id].orphans = inst[id].orphans]_vars

StrategyTarget(strategy) == IF strategy = "restart_renderer" THEN "renderer" ELSE "ffmpeg"

\* C31: restart_ffmpeg, restart_renderer and reconnect_stream touch only the child
\* they name: whether the strategy returns success or failure, every other child of
\* the process set keeps its place and its liveness, no other child is added, and the
\* pipeline's status and its tier, in the instance and in the streams table, are
\* unchanged.
C31_SingleProcessFrame ==
    [][\A t \in Threads :
          (/\ pc[t] = "rec_exec" /\ pc'[t] = "rec_finish"
           /\ rec.strategy \in {"restart_ffmpeg", "restart_renderer", "reconnect_stream"})
             => LET old == inst[rec.id]
                    new == inst'[rec.id]
                    name == StrategyTarget(rec.strategy)
                IN  /\ \A k \in 1..Len(old.processes) :
                          old.processes[k].name # name
                             => /\ k <= Len(new.processes)
                                /\ new.processes[k] = old.processes[k]
                    /\ ProcNames(new.processes) \subseteq ProcNames(old.processes) \cup {name}
                    /\ new.status = old.status
                    /\ new.quality = old.quality
                    /\ db_streams' = db_streams]_vars

\* a renderer that was running beside a dead display and a running encoder has been
\* relaunched by restart_renderer
C31_Witness ==
    /\ pc[MonitorThread] = "rec_finish"
    /\ rec.strategy = "restart_renderer" /\ rec.executed /\ rec.strategy_ok
    /\ rec.dead = {"display"}
    /\ inst[rec.id].processes = << [name |-> "display", alive |-> FALSE],
                                   [name |-> "renderer", alive |-> TRUE],
                                   [name |-> "ffmpeg", alive |-> TRUE] >>

\* C32: api_manual_recovery for a registered pipeline that is not recovering enters
\* attempt_recovery: with the tag manual_recovery alone, planned as full_restart, when
\* no child is dead and no resource or health symptom is detected, and otherwise with
\* the detected tags, a dead child's tag among them and first; for an id that is not
\* registered it returns failure and changes nothing.
C32_ManualRecoveryRuns ==
    [][\A t \in ApiThreads :
          (pc[t] = "locked" /\ req[t].op = "recover" /\ pc'[t] # "locked")
             => LET id == req[t].id
                    i == inst[id]
                IN  IF ~Registered(id)
                    THEN /\ pc'[t] = "return" /\ ~req'[t].ok
                         /\ UNCHANGED <<db_streams, stream_recovery, active_streams, inst,
                                        stream_lock, mon, rec>>
                    ELSE ~i.recovery_in_progress
                           => /\ pc'[t] = "rec_exec"
                              /\ rec'.id = id /\ rec'.path = "manual"
                              /\ rec'.tags # <<>>
                              /\ \A k \in 1..Len(rec'.tags) : rec'.tags[k] # "unknown_failure"
                              /\ inst'[id].recovery_in_progress
                              /\ IF DeadNames(i.processes) # {}
                                 THEN \E n \in DeadNames(i.processes) :
                                         rec'.tags[1] = "process_failure_" \o n
                                 ELSE (\A k \in 1..Len(rec'.tags) :
                                          rec'.tags[k] \notin {"high_cpu", "memory_exhaustion",
                                                               "connection_issues",
                                                               "critical_health"})
                                         => /\ rec'.tags = <<"manual_recovery">>
                                            /\ rec'.strategy = "full_restart"]_vars

\* a manual recovery of a live pipeline with every child running and idle is about
\* to execute full_restart under the tag manual_recovery
C32_Witness ==
    /\ pc["api1"] = "rec_exec"
    /\ rec.path = "manual" /\ rec.tags = <<"manual_recovery">>
    /\ rec.strategy = "full_restart"
    /\ inst[rec.id].status = "live"
    /\ AliveNames(inst[rec.id].processes) = {"display", "renderer", "ffmpeg"}

\* the order in which detect_failure_type is claimed to list its tags
TagOrder == <<"process_failure_display", "process_failure_renderer",
              "process_failure_ffmpeg", "high_cpu", "memory_exhaustion",
              "connection_issues", "critical_health">>
TagRank(tag) == CHOOSE k \in 1..Len(TagOrder) : TagOrder[k] = tag

\* C33: in a recovery pass the tags of the classifier are listed in the order display,
\* renderer, encoder process failure, high_cpu, memory_exhaustion, connection_issues,
\* critical_health, and the strategy of the pass is the one of the first tag: when a
\* child is dead it is the restart of the earliest-launched dead child, and a
\* resource or health tag decides only when no child is dead.
C33_FirstTagByLaunchOrder ==
    \A t \in Threads :
        (pc[t] \in {"rec_exec", "rec_finish"} /\ rec.tags # <<"manual_recovery">>)
           => /\ \A k \in 1..Len(rec.tags) :
                    \E j \in 1..Len(TagOrder) : rec.tags[k] = TagOrder[j]
              /\ \A k \in 1..(Len(rec.tags) - 1) :
                    TagRank(rec.tags[k]) < TagRank(rec.tags[k + 1])
              /\ rec.strategy =
                    (IF "display" \in rec.dead THEN "restart_display"
                     ELSE IF "renderer" \in rec.dead THEN "restart_renderer"
                     ELSE IF "ffmpeg" \in rec.dead THEN "restart_ffmpeg"
                     ELSE CASE rec.tags[1] = "high_cpu" -> "reduce_quality"
                            [] rec.tags[1] = "memory_exhaustion" -> "restart_all"
                            [] rec.tags[1] = "connection_issues" -> "reconnect_stream"
                            [] OTHER -> "full_restart")
              /\ rec.tags[1] \in {"high_cpu", "memory_exhaustion", "connection_issues",
                                   "critical_health"} => rec.dead = {}

\* a pass found the renderer and the encoder dead while cpu and memory were high and
\* has executed the renderer's restart
C33_Witness ==
    /\ pc[MonitorThread] = "rec_finish" /\ rec.executed
    /\ rec.dead = {"renderer", "ffmpeg"}
    /\ rec.tags = <<"process_failure_renderer", "process_failure_ffmpeg", "high_cpu",
                    "memory_exhaustion">>
    /\ rec.strategy = "restart_renderer"

\* C34: a pipeline whose status is live, and on which no handler and no monitor pass
\* is executing, has a process in its process set.
C34_LiveHasProcesses ==
    \A id \in StreamIds :
        (/\ Registered(id)
         /\ inst[id].status = "live"
         /\ \A t \in Threads : ~ExecutingOn(t, id))
           => inst[id].processes # <<>>

\* C35: no instance has a running child outside its process set: no launch has
\* overwritten the handle of a child that was still running.
C35_NoLeakedChild ==
    \A id \in StreamIds : inst[id].orphans = 0

ScopeHeal == [configs |-> {DefaultConfig}, create |-> CreateTiers, update |-> UpdateData,
              ids |-> {"s1"}, apis |-> {}, maxfc |-> MaxFailureCountDeep,
              faults |-> {"none"}, samples |-> {IdleSample}, mortal |-> {},
              orphans |-> MaxOrphansElsewhere]

\* a live pipeline in any tier, with any of its three children dead, and the monitor
\* thread about to wake; no request arrives and no further child exits
InitHeal ==
    /\ \E q \in Tiers, fc \in 0..MaxFailureCount, p \in DetectProcesses :
            /\ db_streams = [id \in StreamIds |->
                               [present |-> (id = "s1"),
                                quality |-> IF id = "s1" THEN q ELSE "medium"]]
            /\ inst = [id \in StreamIds |->
                        IF id = "s1"
                        THEN [NewInstance(q) EXCEPT !.status = "live", !.processes = p,
                                                    !.failure_count = fc]
                        ELSE NoInstance]
    /\ stream_recovery = [id \in StreamIds |-> 0]
    /\ active_streams = <<"s1">>
    /\ stream_lock = "free"
    /\ pc = [t \in Threads |-> "idle"]
    /\ req = [t \in Threads |-> NoReq]
    /\ mon = [todo |-> <<>>, metrics_due |-> FALSE]
    /\ rec = NoRec

NextHeal ==
    \/ \E due \in BOOLEAN : MonitorWake(due)
    \/ MonitorSkip("s1")
    \/ MonitorFailure(ScopeHeal, "s1")
    \/ MonitorQuiet("s1")
    \/ MonitorMetrics(ScopeHeal, "s1")
    \/ ExecuteRecovery(ScopeHeal, MonitorThread)
    \/ FinishRecovery(ScopeHeal, MonitorThread)
    \/ ReturnRecovery(MonitorThread)
    \/ MonitorRelease

\* the loop of _monitor_streams never ends: it always takes its next step
SpecHeal == InitHeal /\ [][NextHeal]_vars /\ WF_vars(NextHeal)

\* every launch of every strategy succeeds
RelaunchesSucceed ==
    [](\A t \in Threads : pc[t] \in {"rec_finish", "rec_ret"} => rec.launches_ok)

\* C37: when at least two children of a live pipeline are dead, no further child
\* dies and every relaunch succeeds, the monitor's passes lead to a state in which
\* the pipeline is live with every child of its set alive or its status is error; and
\* a recovery that returns success while a child is still dead leads to a further
\* recovery of the pipeline.
C37_MonitorHealsOrGivesUp ==
    RelaunchesSucceed
       => /\ (/\ inst["s1"].status = "live"
              /\ Cardinality(DeadNames(inst["s1"].processes)) >= 2)
                ~> (\/ /\ inst["s1"].status = "live"
                       /\ DeadNames(inst["s1"].processes) = {}
                    \/ inst["s1"].status = "error")
          /\ (/\ pc[MonitorThread] = "rec_ret" /\ rec.returned
              /\ DeadNames(inst["s1"].processes) # {})
                ~> (pc[MonitorThread] = "rec_exec")

\* the renderer's restart has returned success while the encoder is still dead
C37_Witness ==
    /\ pc[MonitorThread] = "rec_ret" /\ rec.returned
    /\ rec.dead = {"renderer", "ffmpeg"} /\ rec.strategy = "restart_renderer"
    /\ inst["s1"].status = "live"
    /\ DeadNames(inst["s1"].processes) = {"ffmpeg"}

\* C38: an execution of reduce_quality that returns failure leaves the tier of the
\* instance and the tier stored in the streams table as they were.
C38_FailedDowngradeKeepsTier ==
    [][\A t \in Threads :
          (/\ pc[t] = "rec_exec" /\ pc'[t] = "rec_finish"
           /\ rec.strategy = "reduce_quality"
           /\ ~rec'.strategy_ok)
             => /\ inst'[rec.id].quality = inst[rec.id].quality
                /\ db_streams'[rec.id].quality = db_streams[rec.id].quality]_vars

\* C39: start_stream for a registered pipeline whose status is live returns failure
\* with the message of the status check and changes nothing: the instance (status,
\* process set, failure_count, tier, leaked children), the registry, the streams
\* table and the recovery table are as before.
C39_StartOnLiveChangesNothing ==
    [][\A t \in ApiThreads :
          (/\ pc[t] = "locked" /\ req[t].op = "start" /\ pc'[t] # "locked"
           /\ Registered(req[t].id)
           /\ inst[req[t].id].status = "live")
             => /\ req[t].caller # "update"
                      => ~req'[t].ok /\ req'[t].msg = "already_running"
                /\ inst' = inst
                /\ active_streams' = active_streams
                /\ db_streams' = db_streams
                /\ stream_recovery' = stream_recovery]_vars

\* a start request has been refused on a live pipeline one of whose children is dead
C39_Witness ==
    /\ pc["api1"] = "return" /\ req["api1"].op = "start"
    /\ req["api1"].msg = "already_running" /\ ~req["api1"].ok
    /\ inst[req["api1"].id].status = "live"
    /\ DeadNames(inst[req["api1"].id].processes) = {"ffmpeg"}
    /\ AliveNames(inst[req["api1"].id].processes) = {"display", "renderer"}

====
